---------------------------- MODULE Spec2Model ----------------------------
(***************************************************************************)
(* A model of HeroCRTEffect (src/assets/hero-crt-effect.js): one           *)
(* controller, the DOM and browser facilities it uses (listeners, timers,  *)
(* frame callbacks, the WebGL objects it owns), and the events that drive  *)
(* it.                                                                     *)
(*                                                                         *)
(* Numbers.  The code computes in IEEE doubles; the model computes in      *)
(* fixed point and rounds each assignment to the nearest unit:             *)
(*   offsets, targets, velocities   1 unit = 1e-6  (0.008 is 8000)         *)
(*   Math.random() results          1 unit = 1e-3  (0.5 is 500)            *)
(*   momentum                       1 unit = 1e-2  (0.85 is 85)            *)
(*   attraction                     1 unit = 1e-3  (0.1 is 100)            *)
(*   this.time and timer delays     1 unit = 1 ms  (0.016 is 16)           *)
(*   pointer positions and sizes    1 unit = 1 CSS pixel                   *)
(***************************************************************************)
EXTENDS Integers, Sequences, FiniteSets

(***************************************************************************)
(* Program constants.                                                      *)
(***************************************************************************)
mouseSensitivity == 8000

momentum == 85

AttractionHover == 100

AttractionIdle == 20

GlitchChance == 1

TwitchChance == 10

GlitchScale == 2000

TwitchScale == 500

FrameTime == 16

CaptureDelay == 500

DebounceDelay == 100

DefaultCanvasW == 300

DefaultCanvasH == 150

(***************************************************************************)
(* Bounds of the model.                                                    *)
(***************************************************************************)
\* frame updates a behaviour may hold (the time accumulator is capped)
MaxFrames == 3

\* resize notifications a behaviour may hold
MaxNotifs == 3

\* calls of destroy() a behaviour may hold
MaxDestroys == 2

\* media elements in the container of the capture specification
MaxElems == 2

\* calls of initHeroCRTEffects from outside the script a behaviour may hold
MaxInitCalls == 2

\* section-load events a behaviour may hold
MaxLoads == 2

(***************************************************************************)
(* Input sets.                                                             *)
(***************************************************************************)
\* results of Math.random(), in thousandths
RandVals == {0, 900}

\* container sizes (getBoundingClientRect of the container)
ContainerSizes == {<<800, 400>>, <<400, 200>>}

\* pointer positions relative to the container's left/top edge
PointerXs == {0, 400, 434, 800}

PointerYs == {0, 200}

\* how far the clock may advance in one step
TickSteps == {50, 100}

(***************************************************************************)
(* Arithmetic helpers.                                                     *)
(***************************************************************************)
Abs(a) == IF a < 0 THEN -a ELSE a

\* a / b rounded to the nearest integer, halves away from zero (b > 0)
RoundDiv(a, b) ==
  IF a >= 0 THEN (2 * a + b) \div (2 * b) ELSE -((2 * (-a) + b) \div (2 * b))


(***************************************************************************)
(* Pure computations of the handlers.                                      *)
(***************************************************************************)
\* mouseMoveHandler: x = (clientX - rect.left) / rect.width, then
\* (x - 0.5) * mouseSensitivity; p is clientX - rect.left, size is rect.width
TargetOffsetUncentered(p, size) == RoundDiv(p * mouseSensitivity, size)

TargetOffset(p, size) ==
  RoundDiv((2 * p - size) * mouseSensitivity, 2 * size)

\* (Math.random() - 0.5) * scale
RandomKick(r, scale) == RoundDiv((r - 500) * scale, 1000)

IdlePerturbationIndependent(hovering, r1, r4, ra, rb) ==
  LET glitch == ~hovering /\ r1 < GlitchChance
      twitch == ~hovering /\ r4 < TwitchChance
      gx == IF glitch THEN RandomKick(ra, GlitchScale) ELSE 0
      gy == IF glitch THEN RandomKick(rb, GlitchScale) ELSE 0
      tx == IF twitch THEN RandomKick(ra, TwitchScale) ELSE 0
      ty == IF twitch THEN RandomKick(rb, TwitchScale) ELSE 0
  IN  [kind |-> IF glitch /\ twitch THEN "both"
                ELSE IF glitch THEN "glitch"
                ELSE IF twitch THEN "twitch"
                ELSE "none",
       dx |-> gx + tx, dy |-> gy + ty]

\* render: the idle block.  r1 and r4 are the two gate draws, ra and rb the
\* draws that size the kick on each axis.  The second gate is drawn only when
\* the first fails (else if).
IdlePerturbation(hovering, r1, r4, ra, rb) ==
  IF hovering
  THEN [kind |-> "none", dx |-> 0, dy |-> 0]
  ELSE IF r1 < GlitchChance
  THEN [kind |-> "glitch", dx |-> RandomKick(ra, GlitchScale),
        dy |-> RandomKick(rb, GlitchScale)]
  ELSE IF r4 < TwitchChance
  THEN [kind |-> "twitch", dx |-> RandomKick(ra, TwitchScale),
        dy |-> RandomKick(rb, TwitchScale)]
  ELSE [kind |-> "none", dx |-> 0, dy |-> 0]

AttractionAlwaysHover(hovering) == AttractionHover

\* const attraction = this.isHovering ? 0.1 : 0.02
Attraction(hovering) == IF hovering THEN AttractionHover ELSE AttractionIdle

AttractIgnoringOffset(v, target, mouse, hovering) ==
  v + RoundDiv(target * Attraction(hovering), 1000)

\* this.velocityX += deltaX * attraction
Attract(v, target, mouse, hovering) ==
  v + RoundDiv((target - mouse) * Attraction(hovering), 1000)

\* this.velocityX *= this.momentum
Damp(v) == RoundDiv(v * momentum, 100)

\* one axis of the frame update: kick, attraction, damping
NextVelocity(v, target, mouse, hovering, kick) ==
  Damp(Attract(v + kick, target, mouse, hovering))

(***************************************************************************)
(* captureContainer: the elements drawn onto the raster.                   *)
(* An element is a record                                                  *)
(*   own     it is the effect's own canvas                                 *)
(*   style   "shown", "none" (display), "hidden" (visibility), "opacity0"  *)
(*   left, top, w, h   its rectangle in the viewport                       *)
(*   throws  drawImage raises an error for it                              *)
(***************************************************************************)
\* style.display !== 'none' && style.visibility !== 'hidden' && style.opacity !== '0'
Shown(el) == el.style = "shown"

\* containerRect.left and containerRect.top: where the container lies in
\* the viewport
ContainerLeft == 40

ContainerTop == 20

RectInViewport(el) == [x |-> el.left, y |-> el.top, w |-> el.w, h |-> el.h]

\* x = rect.left - containerRect.left, y = rect.top - containerRect.top,
\* w = rect.width, h = rect.height
RectInContainer(el) ==
  [x |-> el.left - ContainerLeft, y |-> el.top - ContainerTop, w |-> el.w,
   h |-> el.h]

\* x + w > 0 && y + h > 0 && x < width && y < height
InBounds(rect, width, height) ==
  /\ rect.x + rect.w > 0
  /\ rect.y + rect.h > 0
  /\ rect.x < width
  /\ rect.y < height

DrawStepUncaught(acc, el, i, width, height) ==
  LET rect == RectInContainer(el)
  IN  IF acc.failed \/ el.own \/ ~Shown(el) \/ ~InBounds(rect, width, height)
      THEN acc
      ELSE IF el.throws
      THEN [acc EXCEPT !.failed = TRUE]
      ELSE [acc EXCEPT !.drawn = Append(@, [el |-> i, x |-> rect.x,
                                             y |-> rect.y, w |-> rect.w,
                                             h |-> rect.h])]

\* the body of the forEach callback for element i; acc is the raster's draw
\* list so far and whether an error escaped the callback (the try/catch
\* around drawImage keeps it from escaping)
DrawStep(acc, el, i, width, height) ==
  LET rect == RectInContainer(el)
  IN  IF acc.failed \/ el.own \/ ~Shown(el) \/ ~InBounds(rect, width, height)
      THEN acc
      ELSE IF el.throws
      THEN acc
      ELSE [acc EXCEPT !.drawn = Append(@, [el |-> i, x |-> rect.x,
                                             y |-> rect.y, w |-> rect.w,
                                             h |-> rect.h])]

RECURSIVE DrawFrom(_, _, _, _, _)
DrawFrom(acc, els, i, width, height) ==
  IF i > Len(els)
  THEN acc
  ELSE DrawFrom(DrawStep(acc, els[i], i, width, height), els, i + 1, width,
                height)

\* the fill painted before the elements
FillStyle(bg) ==
  IF bg # "" /\ bg # "rgba(0, 0, 0, 0)" /\ bg # "transparent"
  THEN bg
  ELSE "#000000"

\* the raster after captureContainer, and whether the call completed
CaptureResult(els, bg, width, height) ==
  LET r == DrawFrom([drawn |-> <<>>, failed |-> FALSE], els, 1, width, height)
  IN  [w |-> width, h |-> height, fill |-> FillStyle(bg), drawn |-> r.drawn,
       failed |-> r.failed]

\* a texture no image has been uploaded to
EmptyImage == [w |-> 0, h |-> 0, fill |-> "none", drawn |-> <<>>]

\* a canvas that has just been created or resized
BlankRaster(width, height) ==
  [w |-> width, h |-> height, fill |-> "none", drawn |-> <<>>,
   failed |-> FALSE]


(***************************************************************************)
(* State.                                                                  *)
(***************************************************************************)
VARIABLES
  \* the page
  env,              \* what construction finds: DOM nodes, WebGL, shaders
  containerW, containerH,   \* the container's rectangle
  containerBg,      \* the container's computed background colour
  mediaElements,    \* the container's img, video and canvas elements
  \* the controller's fields
  gl, program, texture, sourceCanvas, animationFrameId, time,
  mouseX, mouseY, targetMouseX, targetMouseY, velocityX, velocityY,
  isHovering, mouseMoveHandler,
  canvasW, canvasH, \* this.canvas.width, this.canvas.height
  raster,           \* this.sourceCanvas: its size and what was drawn on it
  \* the browser
  listeners,        \* registered event listeners and observers
  timers,           \* pending setTimeout callbacks
  resizeTimeout,    \* setupResize's closure variable (0: undefined)
  nextTimerId,
  pendingFrames,    \* pending requestAnimationFrame callbacks
  nextFrameId,
  \* the WebGL objects
  glProgram, glTexture,     \* "none", "live" or "deleted"
  textureImage,     \* the image the texture holds
  uploads,          \* texImage2D calls issued
  glInvalidUse,     \* a GL call named a missing or deleted object
  fault,            \* an error escaped a handler
  \* what has happened (read by the properties only)
  ptrX, ptrY,       \* the position of the last pointer-move (-1: none)
  hasLeft,          \* a pointer-leave has been handled
  nudge,            \* the idle perturbation of the last frame update
  notifs,           \* resize notifications delivered
  bursts,           \* bursts of resize notifications begun
  sinceNotify,      \* time since the last resize notification (saturating)
  resizeRuns,       \* debounced resize-and-capture executions
  lastRunAfter,     \* sinceNotify when the last one executed
  captures,         \* captureContainer runs, by cause
  destroyCalls,     \* calls of destroy()
  released,         \* resources actually released, by kind
  elapsed,          \* time since init() (saturating at the capture delay)
  \* the fragment shader's last invocation
  fragment,
  \* the page around the controllers: discovery and the editor's hook
  marked,           \* the sections carrying data-crt-enabled="true"
  controllers,      \* per section, the frame loops on its present surface
  detached,         \* frame loops left on surfaces the host has replaced
  readyListener,    \* initHeroCRTEffects waits for DOMContentLoaded
  loadListener,     \* the shopify:section:load listener is registered
  initCalls,        \* calls of initHeroCRTEffects from outside the script
  loads             \* section-load events delivered

pageVars == <<env, containerW, containerH, containerBg, mediaElements>>

pointerVars ==
  <<mouseX, mouseY, targetMouseX, targetMouseY, velocityX, velocityY,
    isHovering, ptrX, ptrY, hasLeft>>

fieldVars == <<gl, program, texture, sourceCanvas, mouseMoveHandler>>

frameVars == <<animationFrameId, time, pendingFrames, nextFrameId, nudge>>

surfaceVars == <<canvasW, canvasH, raster>>

timerVars == <<timers, resizeTimeout, nextTimerId>>

glVars == <<glProgram, glTexture, textureImage, uploads, glInvalidUse>>

resizeHist == <<notifs, bursts, sinceNotify, resizeRuns, lastRunAfter>>

teardownVars == <<destroyCalls, released>>

shaderVars == <<fragment>>

discoveryVars ==
  <<marked, controllers, detached, readyListener, loadListener, initCalls,
    loads>>

vars ==
  <<pageVars, pointerVars, fieldVars, frameVars, surfaceVars, timerVars,
    glVars, resizeHist, teardownVars, listeners, fault, captures, elapsed,
    shaderVars, discoveryVars>>

(***************************************************************************)
(* Construction: constructor and init().                                   *)
(***************************************************************************)
\* what construction can find
Env(canvas, container, webgl, vertexOk, fragmentOk, linkOk, observer) ==
  [canvas |-> canvas, container |-> container, webgl |-> webgl,
   vertexOk |-> vertexOk, fragmentOk |-> fragmentOk, linkOk |-> linkOk,
   resizeObserver |-> observer]

FullEnv == Env(TRUE, TRUE, TRUE, TRUE, TRUE, TRUE, TRUE)

EnvOutcomes ==
  { FullEnv,
    Env(TRUE, TRUE, TRUE, TRUE, TRUE, TRUE, FALSE),    \* no ResizeObserver
    Env(FALSE, TRUE, TRUE, TRUE, TRUE, TRUE, TRUE),    \* no surface
    Env(TRUE, FALSE, TRUE, TRUE, TRUE, TRUE, TRUE),    \* no container
    Env(TRUE, TRUE, FALSE, TRUE, TRUE, TRUE, TRUE),    \* no WebGL context
    Env(TRUE, TRUE, TRUE, FALSE, TRUE, TRUE, TRUE),    \* vertex stage fails
    Env(TRUE, TRUE, TRUE, TRUE, FALSE, TRUE, TRUE),    \* fragment stage fails
    Env(TRUE, TRUE, TRUE, TRUE, TRUE, FALSE, TRUE) }   \* linking fails

\* if (!this.canvas || !this.container) return
DomFound(e) == e.canvas /\ e.container

InitIgnoringContext(e) == DomFound(e)

\* init() goes on to its setup steps: the DOM nodes were found and
\* getContext returned a context
InitProceeds(e) == DomFound(e) /\ e.webgl

\* setupWebGL gets past createShader (twice) and createProgram
Linked(e) == e.vertexOk /\ e.fragmentOk /\ e.linkOk

\* the listeners setupResize and setupMouseTracking register
ListenersOf(e) ==
  {"resize", "mousemove", "mouseleave"}
    \cup (IF e.resizeObserver /\ e.container THEN {"observer"} ELSE {})

\* the frame update's arithmetic on the pointer state p, with idle
\* perturbation k
RenderPhysics(p, k) ==
  LET vx == NextVelocity(p.velocityX, p.targetMouseX, p.mouseX, p.isHovering,
                         k.dx)
      vy == NextVelocity(p.velocityY, p.targetMouseY, p.mouseY, p.isHovering,
                         k.dy)
  IN  [p EXCEPT !.velocityX = vx, !.velocityY = vy,
                !.mouseX = p.mouseX + vx, !.mouseY = p.mouseY + vy]

RestState ==
  [mouseX |-> 0, mouseY |-> 0, targetMouseX |-> 0, targetMouseY |-> 0,
   velocityX |-> 0, velocityY |-> 0, isHovering |-> FALSE]

\* the state new HeroCRTEffect(sectionId) leaves behind, init() and its
\* first render() included
InitialCaptureUndelayed == [id |-> 1, kind |-> "capture", remaining |-> 0]

\* setTimeout(() => { this.captureContainer().then(...) }, 500) in init()
InitialCaptureTimer ==
  [id |-> 1, kind |-> "capture", remaining |-> CaptureDelay]

Construct(e, size, els, bg, r1, r4, ra, rb) ==
  LET setup    == InitProceeds(e)
      context  == DomFound(e) /\ e.webgl
      linked   == setup /\ Linked(e)
      rendered == context /\ linked
      k        == IdlePerturbation(FALSE, r1, r4, ra, rb)
      p        == IF rendered THEN RenderPhysics(RestState, k) ELSE RestState
  IN  /\ env = e
      /\ containerW = size[1]
      /\ containerH = size[2]
      /\ containerBg = bg
      /\ mediaElements = els
      /\ gl = context
      /\ program = IF linked THEN 1 ELSE 0
      /\ texture = IF linked THEN 1 ELSE 0
      /\ sourceCanvas = setup
      /\ mouseMoveHandler = setup
      /\ canvasW = IF linked THEN size[1] ELSE DefaultCanvasW
      /\ canvasH = IF linked THEN size[2] ELSE DefaultCanvasH
      /\ raster = IF linked THEN BlankRaster(size[1], size[2])
                            ELSE BlankRaster(DefaultCanvasW, DefaultCanvasH)
      /\ listeners = IF setup THEN ListenersOf(e) ELSE {}
      /\ timers = IF setup THEN {InitialCaptureTimer} ELSE {}
      /\ resizeTimeout = 0
      /\ nextTimerId = IF setup THEN 2 ELSE 1
      /\ animationFrameId = IF rendered THEN 1 ELSE 0
      /\ pendingFrames = IF rendered THEN {1} ELSE {}
      /\ nextFrameId = IF rendered THEN 2 ELSE 1
      /\ time = IF rendered THEN FrameTime ELSE 0
      /\ nudge = IF rendered THEN k.kind ELSE "none"
      /\ mouseX = p.mouseX
      /\ mouseY = p.mouseY
      /\ targetMouseX = p.targetMouseX
      /\ targetMouseY = p.targetMouseY
      /\ velocityX = p.velocityX
      /\ velocityY = p.velocityY
      /\ isHovering = FALSE
      /\ glProgram = IF linked THEN "live" ELSE "none"
      /\ glTexture = IF linked THEN "live" ELSE "none"
      /\ textureImage = EmptyImage
      /\ uploads = 0
      /\ glInvalidUse = FALSE
      /\ fault = FALSE
      /\ ptrX = -1
      /\ ptrY = -1
      /\ hasLeft = FALSE
      /\ notifs = 0
      /\ bursts = 0
      /\ sinceNotify = DebounceDelay
      /\ elapsed = 0
      /\ resizeRuns = 0
      /\ lastRunAfter = 0
      /\ captures = [initial |-> 0, resize |-> 0]
      /\ destroyCalls = 0
      /\ released = [frame |-> 0, program |-> 0, texture |-> 0,
                     unacquired |-> 0]

(***************************************************************************)
(* Pointer tracking: setupMouseTracking's two handlers.                    *)
(***************************************************************************)
\* if (!wasHovering) { ... = 0 }: what a field holds after the entry reset
EntryKeepsStale(wasHovering, value) == value

AfterEntryReset(wasHovering, value) == IF wasHovering THEN value ELSE 0

\* mousemove on the container, the pointer at (px, py) inside it
MouseMove(px, py) ==
  /\ "mousemove" \in listeners
  /\ px \in 0..containerW
  /\ py \in 0..containerH
  /\ isHovering' = TRUE
  \* on entry the offset and the velocity are reset; the target is reset
  \* too and then assigned from the pointer position
  /\ mouseX' = AfterEntryReset(isHovering, mouseX)
  /\ mouseY' = AfterEntryReset(isHovering, mouseY)
  /\ velocityX' = AfterEntryReset(isHovering, velocityX)
  /\ velocityY' = AfterEntryReset(isHovering, velocityY)
  /\ targetMouseX' = TargetOffset(px, containerW)
  /\ targetMouseY' = TargetOffset(py, containerH)
  /\ ptrX' = px
  /\ ptrY' = py
  /\ UNCHANGED <<elapsed, shaderVars, discoveryVars,
                 hasLeft, pageVars, fieldVars, frameVars, surfaceVars,
                 timerVars, glVars, resizeHist, teardownVars, listeners,
                 fault, captures>>

MouseLeaveRecentering ==
  /\ "mouseleave" \in listeners
  /\ isHovering' = FALSE
  /\ hasLeft' = TRUE
  /\ targetMouseX' = 0
  /\ targetMouseY' = 0
  /\ UNCHANGED <<elapsed, shaderVars, discoveryVars, mouseX, mouseY,
                 velocityX, velocityY, ptrX, ptrY, pageVars, fieldVars,
                 frameVars, surfaceVars, timerVars, glVars, resizeHist,
                 teardownVars, listeners, fault, captures>>

\* mouseleave on the container
MouseLeave ==
  /\ "mouseleave" \in listeners
  /\ isHovering' = FALSE
  /\ hasLeft' = TRUE
  /\ UNCHANGED <<elapsed, shaderVars, discoveryVars,
                 mouseX, mouseY, targetMouseX, targetMouseY, velocityX,
                 velocityY, ptrX, ptrY, pageVars, fieldVars, frameVars,
                 surfaceVars, timerVars, glVars, resizeHist, teardownVars,
                 listeners, fault, captures>>

(***************************************************************************)
(* The frame update: render(), run by a pending frame callback.            *)
(***************************************************************************)
PointerState ==
  [mouseX |-> mouseX, mouseY |-> mouseY, targetMouseX |-> targetMouseX,
   targetMouseY |-> targetMouseY, velocityX |-> velocityX,
   velocityY |-> velocityY, isHovering |-> isHovering]

\* the frame callbacks pending after render() has run from callback id:
\* the early return requests nothing, a full run requests one callback last
FramesAfterTwoRequests(id, drawn) ==
  IF drawn
  THEN (pendingFrames \ {id}) \cup {nextFrameId, nextFrameId + 1}
  ELSE pendingFrames \ {id}

FramesAfter(id, drawn) ==
  IF drawn
  THEN (pendingFrames \ {id}) \cup {nextFrameId}
  ELSE pendingFrames \ {id}

RenderFrame(r1, r4, ra, rb) ==
  \E id \in pendingFrames :
    LET drawn == gl /\ program # 0
        k     == IdlePerturbation(isHovering, r1, r4, ra, rb)
        p     == RenderPhysics(PointerState, k)
    IN  /\ drawn => time < MaxFrames * FrameTime
        /\ pendingFrames' = FramesAfter(id, drawn)
        /\ IF drawn
           THEN /\ mouseX' = p.mouseX
                /\ mouseY' = p.mouseY
                /\ velocityX' = p.velocityX
                /\ velocityY' = p.velocityY
                /\ time' = time + FrameTime
                /\ nudge' = k.kind
                /\ glInvalidUse' =
                     (glInvalidUse \/ glProgram # "live" \/ glTexture # "live")
                /\ animationFrameId' = nextFrameId
                /\ nextFrameId' = nextFrameId + 1
           ELSE UNCHANGED <<mouseX, mouseY, velocityX, velocityY, time, nudge,
                            glInvalidUse, animationFrameId, nextFrameId>>
        /\ UNCHANGED <<elapsed, shaderVars, discoveryVars,
                       targetMouseX, targetMouseY, isHovering, ptrX, ptrY,
                       hasLeft, pageVars, fieldVars, surfaceVars, timerVars,
                       glProgram, glTexture, textureImage, uploads,
                       resizeHist, teardownVars, listeners, fault, captures>>

(***************************************************************************)
(* Resize: setupResize's debounced handler, resize(), and the captures.    *)
(***************************************************************************)
\* the pending timers after resizeHandler has run: clearTimeout of the
\* previous debounce timer, then setTimeout(..., 100)
TimersAfterNotifyUncleared(ts, previous, id) ==
  ts \cup {[id |-> id, kind |-> "resize", remaining |-> DebounceDelay]}

TimersAfterNotify(ts, previous, id) ==
  {t \in ts : t.id # previous}
    \cup {[id |-> id, kind |-> "resize", remaining |-> DebounceDelay]}

\* a resize notification, the window's resize event or the ResizeObserver:
\* resizeHandler runs whenever one is delivered, also while a timer whose
\* delay has elapsed has not run yet
ResizeNotify(source) ==
  /\ source \in listeners
  /\ notifs < MaxNotifs
  /\ timers' = TimersAfterNotify(timers, resizeTimeout, nextTimerId)
  /\ resizeTimeout' = nextTimerId
  /\ nextTimerId' = nextTimerId + 1
  /\ notifs' = notifs + 1
  /\ bursts' = IF sinceNotify < DebounceDelay THEN bursts ELSE bursts + 1
  /\ sinceNotify' = 0
  /\ UNCHANGED <<elapsed, shaderVars, discoveryVars,
                 resizeRuns, lastRunAfter, pageVars, pointerVars, fieldVars,
                 frameVars, surfaceVars, glVars, teardownVars, listeners,
                 fault, captures>>

\* the page lays the container out at another size
ContainerResize(size) ==
  /\ env.container
  /\ size # <<containerW, containerH>>
  /\ containerW' = size[1]
  /\ containerH' = size[2]
  /\ UNCHANGED <<elapsed, shaderVars, discoveryVars,
                 env, containerBg, mediaElements, pointerVars, fieldVars,
                 frameVars, surfaceVars, timerVars, glVars, resizeHist,
                 teardownVars, listeners, fault, captures>>

\* time passes: d milliseconds.  A timer whose delay has elapsed stays
\* pending, with nothing remaining, until its callback runs.
Tick(d) ==
  /\ (\E t \in timers : t.remaining > 0) \/ sinceNotify < DebounceDelay
  /\ timers' = {[t EXCEPT !.remaining = IF @ > d THEN @ - d ELSE 0] :
                  t \in timers}
  /\ sinceNotify' = IF sinceNotify + d > DebounceDelay
                    THEN DebounceDelay
                    ELSE sinceNotify + d
  /\ elapsed' = IF elapsed + d > CaptureDelay
                THEN CaptureDelay
                ELSE elapsed + d
  /\ UNCHANGED <<shaderVars, discoveryVars,
                 resizeTimeout, nextTimerId, notifs, bursts, resizeRuns,
                 lastRunAfter, pageVars, pointerVars, fieldVars, frameVars,
                 surfaceVars, glVars, teardownVars, listeners, fault,
                 captures>>

\* resize(): the surface and the raster take the container's size
ResizedRaster ==
  IF env.container /\ env.canvas
  THEN BlankRaster(containerW, containerH)
  ELSE raster

\* captureContainer() on raster r, then the upload of its result:
\* if (canvas && this.gl) { bindTexture; texImage2D }
CaptureAndUpload(r, cause) ==
  LET ran == env.container /\ sourceCanvas
      c   == IF ran
             THEN CaptureResult(mediaElements, containerBg, r.w, r.h)
             ELSE r
      up  == ran /\ ~c.failed /\ gl
  IN  /\ raster' = c
      /\ captures' = IF ran THEN [captures EXCEPT ![cause] = @ + 1]
                            ELSE captures
      /\ fault' = (fault \/ c.failed)
      /\ uploads' = IF up THEN uploads + 1 ELSE uploads
      /\ textureImage' =
           IF up /\ texture # 0 /\ glTexture = "live"
           THEN [w |-> c.w, h |-> c.h, fill |-> c.fill, drawn |-> c.drawn]
           ELSE textureImage
      /\ glInvalidUse' =
           (glInvalidUse \/ (up /\ (texture = 0 \/ glTexture # "live")))

\* the timer init() set fires: the deferred initial capture
InitialCaptureFires ==
  \E t \in timers :
    /\ t.kind = "capture"
    /\ t.remaining = 0
    /\ timers' = timers \ {t}
    /\ CaptureAndUpload(raster, "initial")
    /\ UNCHANGED <<elapsed, shaderVars, discoveryVars,
                   canvasW, canvasH, resizeTimeout, nextTimerId, glProgram,
                   glTexture, pageVars, pointerVars, fieldVars, frameVars,
                   resizeHist, teardownVars, listeners>>

\* the debounce timer fires: resize(), then the re-capture
DebouncedResizeFires ==
  \E t \in timers :
    /\ t.kind = "resize"
    /\ t.remaining = 0
    /\ timers' = timers \ {t}
    /\ canvasW' = IF env.container /\ env.canvas THEN containerW ELSE canvasW
    /\ canvasH' = IF env.container /\ env.canvas THEN containerH ELSE canvasH
    /\ CaptureAndUpload(ResizedRaster, "resize")
    /\ resizeRuns' = resizeRuns + 1
    /\ lastRunAfter' = sinceNotify
    /\ UNCHANGED <<elapsed, shaderVars, discoveryVars,
                   resizeTimeout, nextTimerId, notifs, bursts, sinceNotify,
                   glProgram, glTexture, pageVars, pointerVars, fieldVars,
                   frameVars, teardownVars, listeners>>

(***************************************************************************)
(* Teardown: destroy().  It tests each handle and releases it; it clears   *)
(* no field and no timer.                                                  *)
(***************************************************************************)
CancelsFrameNever == FALSE

\* if (this.animationFrameId)
CancelsFrame == animationFrameId # 0

\* if (this.container && this.mouseMoveHandler)
RemovesListeners == env.container /\ mouseMoveHandler

DeletesProgramUnguarded == TRUE

\* if (this.gl && this.program)
DeletesProgram == gl /\ program # 0

DeletesTextureUnguarded == TRUE

\* if (this.texture && this.gl)
DeletesTexture == texture # 0 /\ gl

\* gl.deleteProgram / gl.deleteTexture on an object in state st: deleting a
\* deleted object has no effect
AfterDelete(st) == IF st = "live" THEN "deleted" ELSE st

Destroy ==
  /\ destroyCalls < MaxDestroys
  /\ destroyCalls' = destroyCalls + 1
  /\ pendingFrames' = IF CancelsFrame
                      THEN pendingFrames \ {animationFrameId}
                      ELSE pendingFrames
  /\ listeners' = IF RemovesListeners
                  THEN listeners \ {"mousemove", "mouseleave"}
                  ELSE listeners
  /\ glProgram' = IF DeletesProgram /\ gl /\ program # 0
                  THEN AfterDelete(glProgram)
                  ELSE glProgram
  /\ glTexture' = IF DeletesTexture /\ gl /\ texture # 0
                  THEN AfterDelete(glTexture)
                  ELSE glTexture
  \* this.gl.deleteProgram with this.gl null is a TypeError
  /\ fault' = (fault \/ (DeletesProgram /\ ~gl) \/ (DeletesTexture /\ ~gl))
  /\ released' =
       [frame |-> released.frame
                    + (IF CancelsFrame /\ animationFrameId \in pendingFrames
                       THEN 1 ELSE 0),
        program |-> released.program
                      + (IF DeletesProgram /\ gl /\ program # 0
                            /\ glProgram = "live"
                         THEN 1 ELSE 0),
        texture |-> released.texture
                      + (IF DeletesTexture /\ gl /\ texture # 0
                            /\ glTexture = "live"
                         THEN 1 ELSE 0),
        unacquired |-> released.unacquired
                         + (IF DeletesProgram /\ gl /\ program = 0
                            THEN 1 ELSE 0)
                         + (IF DeletesTexture /\ gl /\ texture = 0
                            THEN 1 ELSE 0)]
  /\ UNCHANGED <<elapsed, shaderVars, discoveryVars,
                 animationFrameId, time, nextFrameId, nudge, textureImage,
                 uploads, glInvalidUse, pageVars, pointerVars, fieldVars,
                 surfaceVars, timerVars, resizeHist, captures>>

(***************************************************************************)
(* The fragment shader's curvature warp.  Texture coordinates are in       *)
(* thousandths of the surface, the curvature in hundredths.                *)
(***************************************************************************)
TexUnit == 1000

CurvatureUnit == 100

\* this.curvature, the value render() passes as u_curvature
curvature == 12

\* the varying v_texCoord at a sample of pixels: the center, the edges, and
\* (0.014, 0.390), which the program's curvature warps just past the edge
TexCoords == {0, 14, 250, 390, 500, 750, 1000}

\* values of the uniform u_curvature: negative, zero, the program's, large
Curvatures == {-300, -12, 0, curvature, 300, 1000}

\* vec2 center = vec2(0.5, 0.5), on either axis
Center == TexUnit \div 2

\* the unit of the factor: curvature times squared distance is a whole
\* number of these
FactorUnit == CurvatureUnit * TexUnit * TexUnit

\* products of a coordinate and a factor are held in two parts of this
\* base, whose square is FactorUnit
Base == 10 * TexUnit

\* dist * dist, with dist = length(coord)
DistSquared(coord) == coord[1] * coord[1] + coord[2] * coord[2]

\* float factor = 1.0 + u_curvature * dist * dist
Factor(c, coord) == FactorUnit + c * DistSquared(coord)

\* x * factor, exactly: its sign and its magnitude hi * Base + lo, in units
\* of 1 / (TexUnit * FactorUnit)
Times(x, factor) ==
  LET a  == Abs(x)
      g1 == Abs(factor) \div Base
      g0 == Abs(factor) % Base
  IN  [negative |-> (x < 0) # (factor < 0),
       hi |-> a * g1 + (a * g0) \div Base,
       lo |-> (a * g0) % Base]

distortWithoutRecentering(uv, c) ==
  LET coord  == <<uv[1] - Center, uv[2] - Center>>
      factor == Factor(c, coord)
  IN  <<Times(uv[1], factor), Times(uv[2], factor)>>

\* vec2 distort(vec2 uv): on each axis the exact offset of the warped
\* coordinate from the center, coord * factor
distort(uv, c) ==
  LET coord  == <<uv[1] - Center, uv[2] - Center>>
      factor == Factor(c, coord)
  IN  <<Times(coord[1], factor), Times(coord[2], factor)>>

\* center + offset on one axis lies below 0.0 or above 1.0: the offset's
\* magnitude exceeds one half
OutOfRange(offset) ==
  \/ offset.hi > Center * Base
  \/ offset.hi = Center * Base /\ offset.lo > 0

\* main()'s range test on the warped coordinate: outside it the fragment is
\* painted black and nothing is sampled
Discarded(distorted) == OutOfRange(distorted[1]) \/ OutOfRange(distorted[2])

\* center + offset on one axis, to the nearest texture unit
Coordinate(offset) ==
  LET whole == (offset.hi + Base \div 2) \div Base
  IN  IF offset.negative THEN Center - whole ELSE Center + whole

\* no fragment has been shaded yet
NoFragment ==
  [uv |-> <<-1, -1>>, curvature |-> 0, distortedUV |-> <<-1, -1>>,
   discarded |-> FALSE, shaded |-> FALSE]

\* the controller's own fields and history, which the shader and the page
\* script leave alone
controllerVars ==
  <<pageVars, pointerVars, fieldVars, frameVars, surfaceVars, timerVars,
    glVars, resizeHist, teardownVars, listeners, fault, captures, elapsed>>

\* main() of the fragment shader for the fragment at uv, once a frame has
\* been drawn with the linked program
FragmentShader(uv, c) ==
  LET distorted == distort(uv, c)
  IN  /\ gl /\ program # 0 /\ glProgram = "live"
      /\ time > 0
      /\ fragment' = [uv |-> uv, curvature |-> c,
                      distortedUV |-> <<Coordinate(distorted[1]),
                                        Coordinate(distorted[2])>>,
                      discarded |-> Discarded(distorted),
                      shaded |-> TRUE]
      /\ UNCHANGED <<controllerVars, discoveryVars>>

(***************************************************************************)
(* Discovery: the script's top level, initHeroCRTEffects and the editor's  *)
(* section-load hook.  Every controller counted here is fully set up.      *)
(***************************************************************************)
Sections == {"s1", "s2"}

NoControllers == [s \in Sections |-> 0]

\* initHeroCRTEffects(): a new controller for every marked section
AfterInitAll(ctl, ms) ==
  [s \in Sections |-> IF s \in ms THEN ctl[s] + 1 ELSE ctl[s]]

\* the script's top level: discovery now or at DOMContentLoaded, and the
\* section-load listener in the theme editor
ScriptRuns(ms, readyState, designMode) ==
  /\ marked = ms
  /\ readyListener = (readyState = "loading")
  /\ controllers = IF readyState = "loading"
                   THEN NoControllers
                   ELSE AfterInitAll(NoControllers, ms)
  /\ loadListener = designMode
  /\ detached = 0
  /\ initCalls = 0
  /\ loads = 0

\* the page the one controller of the other specifications lives on
SinglePage == ScriptRuns({"s1"}, "complete", FALSE)

\* the DOMContentLoaded listener
DOMContentLoaded ==
  /\ readyListener
  /\ readyListener' = FALSE
  /\ controllers' = AfterInitAll(controllers, marked)
  /\ UNCHANGED <<marked, detached, loadListener, initCalls, loads,
                 controllerVars, shaderVars>>

\* a call of initHeroCRTEffects() from outside the script
initHeroCRTEffects ==
  /\ initCalls < MaxInitCalls
  /\ initCalls' = initCalls + 1
  /\ controllers' = AfterInitAll(controllers, marked)
  /\ UNCHANGED <<marked, detached, readyListener, loadListener, loads,
                 controllerVars, shaderVars>>

\* shopify:section:load for section s: the host has put a fresh rendering
\* of the section in the document, marked or not; the listener constructs a
\* controller if it is marked and destroys none
SectionLoad(s, enabled) ==
  /\ loadListener
  /\ loads < MaxLoads
  /\ loads' = loads + 1
  /\ marked' = IF enabled THEN marked \cup {s} ELSE marked \ {s}
  /\ detached' = detached + controllers[s]
  /\ controllers' = [controllers EXCEPT ![s] = IF enabled THEN 1 ELSE 0]
  /\ UNCHANGED <<readyListener, loadListener, initCalls, controllerVars,
                 shaderVars>>

(***************************************************************************)
(* Specifications.                                                         *)
(***************************************************************************)
\* the media of the page the controller is constructed on: the effect's own
\* surface, an image inside the container, an image drawImage fails on
PageElements ==
  << [own |-> TRUE, style |-> "shown", left |-> ContainerLeft,
      top |-> ContainerTop, w |-> 800, h |-> 400, throws |-> FALSE],
     [own |-> FALSE, style |-> "shown", left |-> ContainerLeft + 10,
      top |-> ContainerTop + 10, w |-> 100, h |-> 50, throws |-> FALSE],
     [own |-> FALSE, style |-> "shown", left |-> ContainerLeft + 200,
      top |-> ContainerTop + 10, w |-> 100, h |-> 50, throws |-> TRUE] >>

\* the controller's whole life, for every outcome of construction
Init ==
  /\ \E e \in EnvOutcomes, r1 \in RandVals :
       Construct(e, <<800, 400>>, PageElements, "rgba(0, 0, 0, 0)", r1, 900,
                 0, 0)
  /\ fragment = NoFragment
  /\ SinglePage

\* Here the pointer enters at one position and the frame update draws either
\* the larger nudge or none; SpecPointer below covers the pointer inputs.
Next ==
  \/ \E px \in {800}, py \in {200} : MouseMove(px, py)
  \/ MouseLeave
  \/ \E r1 \in RandVals : RenderFrame(r1, 900, 0, 0)
  \/ \E source \in {"resize", "observer"} : ResizeNotify(source)
  \/ \E d \in TickSteps : Tick(d)
  \/ InitialCaptureFires
  \/ DebouncedResizeFires
  \/ Destroy

Spec == Init /\ [][Next]_vars

\* pointer tracking and the frame update of a fully initialized controller
InitPointer ==
  /\ \E r1 \in RandVals, r4 \in RandVals, ra \in RandVals, rb \in RandVals :
       Construct(FullEnv, <<800, 400>>, PageElements, "rgba(0, 0, 0, 0)", r1,
                 r4, ra, rb)
  /\ fragment = NoFragment
  /\ SinglePage

NextPointer ==
  \/ \E px \in PointerXs, py \in PointerYs : MouseMove(px, py)
  \/ MouseLeave
  \/ \E size \in ContainerSizes : ContainerResize(size)
  \/ \E r1 \in RandVals, r4 \in RandVals, ra \in RandVals, rb \in RandVals :
       RenderFrame(r1, r4, ra, rb)

SpecPointer == InitPointer /\ [][NextPointer]_vars

\* captures of a fully initialized controller, over the container's media;
\* an element lies x to the right of the container's left edge
El(own, style, x, w, throws) ==
  [own |-> own, style |-> style, left |-> ContainerLeft + x,
   top |-> ContainerTop + 10, w |-> w, h |-> 50, throws |-> throws]

ElementKinds ==
  { El(TRUE, "shown", 0, 800, FALSE),      \* the effect's own surface
    El(FALSE, "shown", 10, 100, FALSE),    \* inside
    El(FALSE, "shown", 10, 100, TRUE),     \* inside, drawImage fails
    El(FALSE, "shown", 500, 100, FALSE),   \* inside only while 800 wide
    El(FALSE, "shown", -50, 100, FALSE),   \* overlaps the left edge
    El(FALSE, "shown", -200, 100, FALSE),  \* left of the container
    El(FALSE, "none", 10, 100, FALSE),     \* display: none
    El(FALSE, "hidden", 10, 100, TRUE),    \* visibility: hidden
    El(FALSE, "opacity0", 10, 100, FALSE) }

ElementLists ==
  UNION {[1..n -> ElementKinds] : n \in 0..MaxElems}

Backgrounds == {"rgba(0, 0, 0, 0)", "rgb(255, 0, 0)"}

InitCapture ==
  /\ \E els \in ElementLists, bg \in Backgrounds :
       Construct(FullEnv, <<800, 400>>, els, bg, 900, 900, 0, 0)
  /\ fragment = NoFragment
  /\ SinglePage

\* Here time passes in steps of the debounce delay.
NextCapture ==
  \/ \E source \in {"resize", "observer"} : ResizeNotify(source)
  \/ \E size \in ContainerSizes : ContainerResize(size)
  \/ Tick(DebounceDelay)
  \/ InitialCaptureFires
  \/ DebouncedResizeFires

SpecCapture == InitCapture /\ [][NextCapture]_vars

\* the fragment shader over a sample of fragments and curvature values
InitShader ==
  /\ Construct(FullEnv, <<800, 400>>, PageElements, "rgba(0, 0, 0, 0)", 900,
               900, 0, 0)
  /\ fragment = NoFragment
  /\ SinglePage

NextShader ==
  \E ux \in TexCoords, uy \in TexCoords, c \in Curvatures :
    FragmentShader(<<ux, uy>>, c)

SpecShader == InitShader /\ [][NextShader]_vars

\* the page script: every set of marked sections, with the document still
\* loading or not, inside the theme editor or not
InitDiscovery ==
  /\ Construct(FullEnv, <<800, 400>>, PageElements, "rgba(0, 0, 0, 0)", 900,
               900, 0, 0)
  /\ fragment = NoFragment
  /\ \E ms \in SUBSET Sections, readyState \in {"loading", "complete"},
        designMode \in BOOLEAN :
       ScriptRuns(ms, readyState, designMode)

NextDiscovery ==
  \/ DOMContentLoaded
  \/ initHeroCRTEffects
  \/ \E s \in Sections, enabled \in BOOLEAN : SectionLoad(s, enabled)

SpecDiscovery == InitDiscovery /\ [][NextDiscovery]_vars

(***************************************************************************)
(* Properties of pointer tracking and the frame update (SpecPointer).      *)
(***************************************************************************)
\* C1 as stated: the smoothed pointer offset stays within half the mouse
\* sensitivity on each axis in every reachable state.
C1_OffsetWithinSensitivity ==
  /\ 2 * Abs(mouseX) <= mouseSensitivity
  /\ 2 * Abs(mouseY) <= mouseSensitivity

\* C1 as amended: the target offset stays within half the mouse sensitivity
\* on each axis in every reachable state (the smoothed offset is drawn
\* toward it but is not confined to that range).
C1_TargetWithinSensitivity ==
  /\ 2 * Abs(targetMouseX) <= mouseSensitivity
  /\ 2 * Abs(targetMouseY) <= mouseSensitivity

\* the pointer rests on the right edge and a frame update has moved the
\* smoothed offset toward the extreme target
C1_Witness ==
  /\ isHovering
  /\ 2 * targetMouseX = mouseSensitivity
  /\ mouseX > 0
  /\ time > FrameTime

\* a pointer-move that finds the hovering flag false
Reentry == ~isHovering /\ isHovering'

\* C2 as stated: on pointer re-entry the smoothed offset, the target offset
\* and the velocity are all zero when the next frame update begins, for every
\* pointer position.
C2_ReentryAllZero ==
  [][Reentry => /\ mouseX' = 0 /\ mouseY' = 0
                /\ velocityX' = 0 /\ velocityY' = 0
                /\ targetMouseX' = 0 /\ targetMouseY' = 0]_vars

\* C2 as amended: on pointer re-entry the smoothed offset and the velocity
\* are zero when the next frame update begins; the target offset is that of
\* the pointer position, zero on an axis only when the pointer is at the
\* container's center on that axis.
C2_ReentryResets ==
  [][Reentry => /\ mouseX' = 0 /\ mouseY' = 0
                /\ velocityX' = 0 /\ velocityY' = 0
                /\ (targetMouseX' = 0) <=> (2 * ptrX' = containerW)
                /\ (targetMouseY' = 0) <=> (2 * ptrY' = containerH)]_vars

\* the pointer has left and come back off-center after frames have run: the
\* offset and the velocity are at rest, the target is not
C2_Witness ==
  /\ hasLeft
  /\ isHovering
  /\ time > FrameTime
  /\ mouseX = 0 /\ mouseY = 0 /\ velocityX = 0 /\ velocityY = 0
  /\ targetMouseX # 0

\* C3: a pointer-move at (px, py) inside the container sets the target
\* offset to ((px/width - 0.5) * mouseSensitivity, (py/height - 0.5) *
\* mouseSensitivity): zero at the center, linear in mouseSensitivity, at
\* most half of it in magnitude.
C3_TargetFromPointer ==
  [][\A px \in PointerXs, py \in PointerYs :
       MouseMove(px, py) =>
         /\ 2 * containerW * targetMouseX'
              = (2 * px - containerW) * mouseSensitivity
         /\ 2 * containerH * targetMouseY'
              = (2 * py - containerH) * mouseSensitivity
         /\ (2 * px = containerW) => (targetMouseX' = 0)
         /\ (2 * py = containerH) => (targetMouseY' = 0)
         /\ 2 * Abs(targetMouseX') <= mouseSensitivity
         /\ 2 * Abs(targetMouseY') <= mouseSensitivity]_vars

\* the pointer has moved to the right edge at mid height
C3_Witness ==
  /\ isHovering
  /\ ptrX = containerW /\ 2 * ptrY = containerH
  /\ 2 * targetMouseX = mouseSensitivity /\ targetMouseY = 0

\* C4: in a frame update that applies no idle perturbation, on an axis
\* where the target equals the smoothed offset the velocity is multiplied by
\* the momentum, so its magnitude does not grow.
C4_VelocityDecays ==
  [][(time' # time /\ nudge' = "none") =>
       /\ (targetMouseX = mouseX) =>
            /\ Abs(velocityX') <= Abs(velocityX)
            /\ Abs(100 * velocityX' - momentum * velocityX) <= 50
       /\ (targetMouseY = mouseY) =>
            /\ Abs(velocityY') <= Abs(velocityY)
            /\ Abs(100 * velocityY' - momentum * velocityY) <= 50]_vars

\* a frame update has run with the target on the smoothed offset (the
\* pointer was moved onto it) and a velocity left over from the frame before
C4_Witness ==
  /\ isHovering
  /\ nudge = "none"
  /\ ptrX = 434
  /\ velocityX # 0
  /\ targetMouseX = mouseX - velocityX

(***************************************************************************)
(* Properties of resize, capture, construction and teardown.               *)
(***************************************************************************)
ResizeTimers == {t \in timers : t.kind = "resize"}

\* C5 as stated: a burst of resize notifications, each less than the
\* debounce delay after the one before, leads to exactly one
\* resize-and-re-capture, run one debounce delay after the burst's last
\* notification.
C5_OneRunPerBurst ==
  /\ Cardinality(ResizeTimers) <= 1
  /\ bursts = resizeRuns + Cardinality(ResizeTimers)
  /\ resizeRuns > 0 => lastRunAfter = DebounceDelay
  /\ \A t \in ResizeTimers : t.remaining + sinceNotify = DebounceDelay

\* C5 as amended: a burst of resize notifications, each less than the
\* debounce delay after the one before, leads to at most one
\* resize-and-re-capture, run no earlier than one debounce delay after the
\* burst's last notification; at most one debounce timer is pending, and
\* it is pending from each notification until it runs or the next
\* notification replaces it, which also happens to a timer that is due but
\* has not run yet (that burst then gets no run of its own).
C5_AtMostOneRunPerBurst ==
  /\ Cardinality(ResizeTimers) <= 1
  /\ resizeRuns + Cardinality(ResizeTimers) <= bursts
  /\ resizeRuns > 0 => lastRunAfter = DebounceDelay
  /\ \A t \in ResizeTimers : t.remaining + sinceNotify = DebounceDelay
  /\ (notifs > 0 /\ ResizeTimers = {}) => resizeRuns > 0

\* a burst of three notifications has been answered by one run
C5_Witness ==
  /\ notifs = 3
  /\ bursts = 1
  /\ resizeRuns = 1
  /\ captures.resize = 1

\* the elements a capture onto raster r has to draw: not the effect's own
\* surface, not hidden, overlapping the raster, and drawable
Expected(r) ==
  {i \in 1..Len(mediaElements) :
     /\ ~mediaElements[i].own
     /\ mediaElements[i].style \notin {"none", "hidden", "opacity0"}
     /\ mediaElements[i].left - ContainerLeft + mediaElements[i].w > 0
     /\ mediaElements[i].left - ContainerLeft < r.w
     /\ mediaElements[i].top - ContainerTop + mediaElements[i].h > 0
     /\ mediaElements[i].top - ContainerTop < r.h
     /\ ~mediaElements[i].throws}

\* C6: captureContainer never fails; whichever elements raise an error when
\* drawn, the capture completes, its raster is handed on, and every other
\* visible element within bounds has been drawn, in document order.
C6_CaptureNeverFails ==
  /\ ~fault
  /\ ~raster.failed
  /\ uploads = captures.initial + captures.resize
  /\ (captures.initial + captures.resize > 0) =>
       /\ Len(raster.drawn) = Cardinality(Expected(raster))
       /\ \A j \in 1..Len(raster.drawn) : raster.drawn[j].el \in Expected(raster)
       /\ \A j \in 1..Len(raster.drawn), k \in 1..Len(raster.drawn) :
            j < k => raster.drawn[j].el < raster.drawn[k].el
       /\ textureImage = [w |-> raster.w, h |-> raster.h,
                          fill |-> raster.fill, drawn |-> raster.drawn]

\* a capture has run over an element whose drawing fails followed by a
\* valid one, and the valid one is on the raster
C6_Witness ==
  /\ captures.initial = 1
  /\ Len(mediaElements) = 2
  /\ mediaElements[1] = El(FALSE, "shown", 10, 100, TRUE)
  /\ mediaElements[2] = El(FALSE, "shown", 500, 100, FALSE)
  /\ Len(raster.drawn) = 1
  /\ raster.drawn[1].el = 2

\* C7: destroy() is safe after every outcome of construction and
\* idempotent: no call faults, no resource is released twice or without
\* having been acquired, and a call after the first changes nothing.
C7_DestroyIdempotent ==
  [][(destroyCalls' = destroyCalls + 1) =>
       /\ ~fault'
       /\ released'.frame <= 1
       /\ released'.program <= 1
       /\ released'.texture <= 1
       /\ released'.unacquired = 0
       /\ released'.program = 1 => program # 0
       /\ released'.texture = 1 => texture # 0
       /\ pendingFrames' = {}
       /\ glProgram' # "live" /\ glTexture' # "live"
       /\ (destroyCalls >= 1) =>
            UNCHANGED <<pageVars, pointerVars, fieldVars, frameVars,
                        surfaceVars, timerVars, glVars, resizeHist, released,
                        listeners, fault, captures>>]_vars

\* destroy() has been called twice on a fully initialized controller
C7_Witness ==
  /\ destroyCalls = 2
  /\ released = [frame |-> 1, program |-> 1, texture |-> 1, unacquired |-> 0]
  /\ glProgram = "deleted"
  /\ glTexture = "deleted"

\* construction got a context but a shader stage or the link failed
ShaderFailed ==
  /\ env.canvas /\ env.container /\ env.webgl
  /\ ~(env.vertexOk /\ env.fragmentOk /\ env.linkOk)

\* C8 as stated: after a compile or link failure the controller is inert:
\* no frame drawn or scheduled, no listener, no deferred capture, no upload.
C8_ShaderFailureInert ==
  ShaderFailed =>
    /\ pendingFrames = {}
    /\ time = 0
    /\ listeners = {}
    /\ timers = {}
    /\ captures = [initial |-> 0, resize |-> 0]
    /\ uploads = 0

\* C9: with the surface or the container missing, or no rendering context,
\* construction completes without a fault and the controller stays inert:
\* no listener, no timer, no frame callback, no capture, no rendering, ever.
C9_NoContextInert ==
  (~env.canvas \/ ~env.container \/ ~env.webgl) =>
    /\ ~fault
    /\ listeners = {}
    /\ timers = {}
    /\ pendingFrames = {}
    /\ animationFrameId = 0
    /\ time = 0
    /\ captures = [initial |-> 0, resize |-> 0]
    /\ uploads = 0
    /\ PointerState = RestState

\* a controller that found no rendering context has since been torn down
C9_Witness ==
  /\ env.canvas /\ env.container /\ ~env.webgl
  /\ destroyCalls > 0

\* C10: at most one frame callback is pending at any time, and it is the
\* one the last frame update requested.
C10_OnePendingFrame ==
  /\ Cardinality(pendingFrames) <= 1
  /\ pendingFrames \subseteq {animationFrameId}

\* frame updates have run and the next one is pending
C10_Witness ==
  /\ time > FrameTime
  /\ pendingFrames = {animationFrameId}
  /\ animationFrameId > 1


(***************************************************************************)
(* Properties of the frame loop's life and of teardown (Spec).             *)
(***************************************************************************)
\* C11: until destroy() is called a controller with a context and a linked
\* program has a next frame scheduled after each frame update; once
\* destroy() has been called no frame update runs and no pointer event is
\* handled, so the pointer state and the time accumulator never change.
C11_LoopEndsAtDestroy ==
  [][/\ (gl /\ program # 0 /\ destroyCalls = 0)
          => pendingFrames = {animationFrameId}
     /\ (gl' /\ program' # 0 /\ destroyCalls' = 0)
          => pendingFrames' = {animationFrameId'}
     /\ destroyCalls > 0
          => /\ pendingFrames = {} /\ pendingFrames' = {}
             /\ time' = time
             /\ PointerState' = PointerState]_vars

\* a running controller with the pointer over it has been destroyed
C11_Witness ==
  /\ destroyCalls > 0
  /\ gl /\ program # 0
  /\ time > FrameTime
  /\ isHovering /\ targetMouseX # 0 /\ mouseX # 0
  /\ pendingFrames = {}
  /\ "mousemove" \notin listeners

(***************************************************************************)
(* Properties of the curvature warp (SpecShader).                          *)
(***************************************************************************)
\* C12: for every value of the curvature, positive, zero or negative, the
\* fragment at the exact center (0.5, 0.5) is warped to (0.5, 0.5) and is
\* not discarded.
C12_CenterIsFixed ==
  (fragment.shaded /\ fragment.uv = <<Center, Center>>)
    => /\ fragment.distortedUV = <<Center, Center>>
       /\ ~fragment.discarded

\* the center fragment has been shaded under a negative curvature
C12_Witness ==
  /\ fragment.shaded
  /\ fragment.uv = <<Center, Center>>
  /\ fragment.curvature < 0

(***************************************************************************)
(* Properties of the deferred captures (Spec, SpecCapture).                *)
(***************************************************************************)
\* C13 as stated: once destroy() has released the texture no capture result
\* is uploaded to it: neither the deferred initial capture nor a debounced
\* resize handler that fires after teardown issues a GL call on the
\* released texture.
C13_NoUploadAfterRelease ==
  [][glTexture = "deleted" => uploads' = uploads]_vars

\* C14 as stated: every capture, whether triggered by the initial timer or
\* by a debounced resize, draws onto a raster whose width and height equal
\* the container's size at the moment of that capture, and equal the
\* rendering surface's size, for every interleaving of container size
\* changes and the two timers.
C14_CaptureAtContainerSize ==
  [][captures' # captures =>
       /\ raster'.w = containerW /\ raster'.h = containerH
       /\ raster'.w = canvasW' /\ raster'.h = canvasH']_vars

(***************************************************************************)
(* Properties of the frame update's steps (SpecPointer).                   *)
(***************************************************************************)
\* a frame update, for every outcome of its random draws
FrameUpdate ==
  \E r1 \in RandVals, r4 \in RandVals, ra \in RandVals, rb \in RandVals :
    RenderFrame(r1, r4, ra, rb)

\* a frame update can run now and will draw
FrameDue ==
  /\ gl /\ program # 0
  /\ pendingFrames # {}
  /\ time < MaxFrames * FrameTime

\* C15 as stated: in a frame update with the pointer not over the container
\* the larger nudge and the tiny nudge are independent: none, either one or
\* both can be applied in the same frame; with the pointer over the
\* container neither is applied.
C15_NudgesIndependent ==
  FrameDue =>
    IF isHovering
    THEN ~ENABLED (FrameUpdate /\ nudge' # "none")
    ELSE /\ ENABLED (FrameUpdate /\ nudge' = "none")
         /\ ENABLED (FrameUpdate /\ nudge' = "glitch")
         /\ ENABLED (FrameUpdate /\ nudge' = "twitch")
         /\ ENABLED (FrameUpdate /\ nudge' = "both")

\* C15 as amended: in a frame update with the pointer not over the
\* container at most one nudge is applied: none, the larger one alone, or
\* the tiny one alone (the tiny nudge is tried only when the larger one was
\* not drawn), never both; with the pointer over the container neither is
\* applied.
C15_NudgesExclusive ==
  FrameDue =>
    IF isHovering
    THEN ~ENABLED (FrameUpdate /\ nudge' # "none")
    ELSE /\ ENABLED (FrameUpdate /\ nudge' = "none")
         /\ ENABLED (FrameUpdate /\ nudge' = "glitch")
         /\ ENABLED (FrameUpdate /\ nudge' = "twitch")
         /\ ~ENABLED (FrameUpdate /\ nudge' \notin {"none", "glitch", "twitch"})

\* the pointer has left and a later frame update applied the tiny nudge,
\* with another frame update due
C15_Witness ==
  /\ FrameDue
  /\ hasLeft /\ ~isHovering
  /\ nudge = "twitch"
  /\ time > FrameTime

\* a pointer-leave has been handled (one that finds the hovering flag
\* already false, after an earlier leave, changes nothing at all)
LeaveStep == (isHovering /\ ~isHovering') \/ (~hasLeft /\ hasLeft')

\* C16: a pointer-leave sets the hovering flag false and leaves the target
\* offset, the smoothed offset and the velocity unchanged; a frame update
\* never changes the target offset or the hovering flag.
C16_LeaveKeepsOffsets ==
  [][/\ LeaveStep =>
          /\ ~isHovering'
          /\ UNCHANGED <<targetMouseX, targetMouseY, mouseX, mouseY,
                         velocityX, velocityY>>
     /\ time' # time =>
          UNCHANGED <<targetMouseX, targetMouseY, isHovering>>]_vars

\* the pointer has left after frames moved it: the target, the offset and
\* the velocity it left behind are all off zero
C16_Witness ==
  /\ hasLeft /\ ~isHovering
  /\ targetMouseX # 0 /\ mouseX # 0 /\ velocityX # 0
  /\ time > FrameTime

\* C17: for a controller whose init() acquired a rendering context exactly
\* one capture is triggered by the fixed-delay timer, and not before the
\* delay has elapsed; every other capture is the run of a debounced resize
\* notification, so with no notification no capture runs before the delay
\* has elapsed.
C17_CaptureCauses ==
  gl =>
    /\ captures.initial = IF \E t \in timers : t.kind = "capture"
                          THEN 0 ELSE 1
    /\ \A t \in timers :
         t.kind = "capture" => t.remaining + elapsed = CaptureDelay
    /\ captures.initial = 1 => elapsed = CaptureDelay
    /\ captures.resize = resizeRuns
    /\ captures.resize <= bursts /\ bursts <= notifs
    /\ (elapsed < CaptureDelay /\ notifs = 0)
         => (captures.initial = 0 /\ captures.resize = 0)

\* the fixed-delay capture has run once and a debounced resize has caused
\* one more
C17_Witness ==
  /\ gl
  /\ captures = [initial |-> 1, resize |-> 1]
  /\ elapsed = CaptureDelay
  /\ notifs > 1
  /\ timers = {}

\* the largest magnitude of the idle nudge of a kind, on either axis
KickBound(kind) ==
  CASE kind = "glitch" -> GlitchScale \div 2
    [] kind = "twitch" -> TwitchScale \div 2
    [] OTHER -> 0

\* v1 is (v0 + kick + (target - offset) * attraction) * momentum for a kick
\* within bound, up to the rounding of the two assignments
VelocityUpdated(v0, v1, target, offset, hovering, bound) ==
  LET attraction == IF hovering THEN AttractionHover ELSE AttractionIdle
  IN  Abs(100000 * v1 - 1000 * momentum * v0
            - momentum * (target - offset) * attraction)
        <= 92500 + 1000 * momentum * bound

\* C18: each frame update applies, in this order and on each axis,
\* velocity := (velocity + (target - offset) * attraction) * momentum, to
\* the velocity with the frame's idle nudge if one was drawn, then
\* offset := offset + velocity, with attraction 0.1 when hovering and 0.02
\* when not; the momentum is applied in every frame and the time accumulator
\* advances by the same increment in every frame.
C18_FrameUpdate ==
  [][time' # time =>
       /\ VelocityUpdated(velocityX, velocityX', targetMouseX, mouseX,
                          isHovering, KickBound(nudge'))
       /\ VelocityUpdated(velocityY, velocityY', targetMouseY, mouseY,
                          isHovering, KickBound(nudge'))
       /\ mouseX' = mouseX + velocityX'
       /\ mouseY' = mouseY + velocityY'
       /\ time' = time + FrameTime]_vars

\* frames have run while hovering off-center and again after the pointer
\* left, with the offset still short of the target and the velocity decaying
C18_Witness ==
  /\ hasLeft /\ ~isHovering
  /\ nudge = "none"
  /\ time = 3 * FrameTime
  /\ targetMouseX # mouseX
  /\ velocityX # 0

\* element i is on the raster r, at rectangle rect
DrawnAt(r, i, rect) ==
  \E j \in 1..Len(r.drawn) :
    r.drawn[j] = [el |-> i, x |-> rect.x, y |-> rect.y, w |-> rect.w,
                  h |-> rect.h]

DrawnAnywhere(r, i) == \E j \in 1..Len(r.drawn) : r.drawn[j].el = i

\* not the effect's own surface, not hidden, and rectangle rect overlaps a
\* raster of the given size
Eligible(el, rect, width, height) ==
  /\ ~el.own
  /\ el.style \notin {"none", "hidden", "opacity0"}
  /\ rect.x + rect.w > 0 /\ rect.y + rect.h > 0
  /\ rect.x < width /\ rect.y < height

\* the rectangle of element el relative to the container
Relative(el) ==
  [x |-> el.left - ContainerLeft, y |-> el.top - ContainerTop, w |-> el.w,
   h |-> el.h]

\* C19 as stated: a capture draws an element if and only if it is not the
\* controller's own surface, is not hidden and its rectangle overlaps the
\* raster; elements entirely outside the container's bounds are never
\* drawn; each drawn element is placed at its position relative to the
\* container.
C19_DrawnIffVisibleInBounds ==
  [][captures' # captures =>
       \A i \in 1..Len(mediaElements) :
         LET el == mediaElements[i]
         IN  /\ DrawnAnywhere(raster', i)
                  <=> Eligible(el, Relative(el), raster'.w, raster'.h)
             /\ DrawnAnywhere(raster', i)
                  => /\ DrawnAt(raster', i, Relative(el))
                     /\ Relative(el).x < containerW
                     /\ Relative(el).y < containerH]_vars

\* C19 as amended: a capture draws an element if and only if it is not the
\* controller's own surface, is not hidden, its rectangle overlaps the
\* raster and drawing it raises no error; elements entirely outside the
\* raster are never drawn; each drawn element is placed at its position
\* relative to the container.
C19_DrawnIffDrawable ==
  [][captures' # captures =>
       \A i \in 1..Len(mediaElements) :
         LET el == mediaElements[i]
         IN  /\ DrawnAnywhere(raster', i)
                  <=> (Eligible(el, Relative(el), raster'.w, raster'.h)
                         /\ ~el.throws)
             /\ DrawnAnywhere(raster', i)
                  => DrawnAt(raster', i, Relative(el))]_vars

\* a capture onto the narrowed raster has drawn the element overlapping the
\* left edge and left out the one beyond the right edge
C19_Witness ==
  /\ captures.resize > 0
  /\ raster.w = 400
  /\ Len(mediaElements) = 2
  /\ mediaElements[1] = El(FALSE, "shown", 500, 100, FALSE)
  /\ mediaElements[2] = El(FALSE, "shown", -50, 100, FALSE)
  /\ Len(raster.drawn) = 1
  /\ raster.drawn[1] = [el |-> 2, x |-> -50, y |-> 10, w |-> 100, h |-> 50]

(***************************************************************************)
(* Properties of discovery (SpecDiscovery).                                *)
(***************************************************************************)
\* C20 as stated: after any sequence of page-ready discovery, calls of
\* initHeroCRTEffects and section-load events, each marked section's
\* surface is driven by exactly one controller, one active frame loop:
\* never zero and never more than one.
C20_OneControllerPerSection ==
  ~readyListener => \A s \in marked : controllers[s] = 1

=============================================================================
